---- MODULE Spec2Model ----
(***************************************************************************)
(* A model of the shared, disk-backed application state of server-events   *)
(* (src/src/state.rs) and of the tray-menu callbacks that mutate it        *)
(* (src/src/gui/app.rs).                                                   *)
(*                                                                         *)
(* The model follows AppState::new, AppState::access, AppState::access_mut *)
(* and MutableAppState::sync statement by statement.  The reader-writer    *)
(* lock around MutableAppState, the config directory and the config file   *)
(* are state; the outcome of every I/O operation is an input.              *)
(***************************************************************************)
EXTENDS Naturals, Sequences, FiniteSets

\* ------------------------------------------------------------------ bounds
\* Number of access / access_mut calls made over a run of the model.
MaxCalls == 2
\* Number of times a store is constructed against the config directory.
MaxBoots == 2
\* Timestamps an After(..) value may carry: 1..MaxTime.
MaxTime == 1

\* ------------------------------------------------------------- MuteState
Unmuted == <<"Unmuted">>
After(t) == <<"After", t>>
NextBoot == <<"NextBoot">>
Manual == <<"Manual">>

Times == 1..MaxTime
MuteState == {Unmuted, NextBoot, Manual} \cup {After(t) : t \in Times}

\* The value of `muted` while no store exists.
NoState == <<"-">>

is_muted(m) == m[1] # "Unmuted"
is_unmuted(m) == m[1] = "Unmuted"

\* ----------------------------------------------------------------- paths
\* A path is the sequence of its components.
join(p, name) == Append(p, name)
parent(p) == SubSeq(p, 1, Len(p) - 1)

config_dir == <<"config_dir">>
cache_dir == join(config_dir, "cache")
config_path == join(config_dir, "server_events.toml")

\* --------------------------------------------------------- the TOML form
\* #[serde(rename_all = "snake_case")] on MuteState.
snake_case(tag) ==
    CASE tag = "Unmuted" -> "unmuted"
      [] tag = "After" -> "after"
      [] tag = "NextBoot" -> "next_boot"
      [] tag = "Manual" -> "manual"

Variants == {"Unmuted", "After", "NextBoot", "Manual"}

\* ConfigFile { muted } as written by to_path_pretty: the unit variants are
\* the bare renamed tag, After carries its timestamp.
to_toml(m) ==
    IF m[1] = "After" THEN <<snake_case(m[1]), m[2]>> ELSE <<snake_case(m[1])>>

\* A document that is no ConfigFile.
Garbage == <<"garbage">>

Documents == {to_toml(m) : m \in MuteState}

\* Deserialization of a document: the variant whose renamed tag the document
\* carries, or a parse error.
from_toml(doc) ==
    IF \E tag \in Variants : snake_case(tag) = doc[1]
    THEN LET tag == CHOOSE v \in Variants : snake_case(v) = doc[1]
         IN  IF tag = "After"
             THEN IF Len(doc) = 2 THEN [ok |-> TRUE, muted |-> After(doc[2])]
                                  ELSE [ok |-> FALSE, muted |-> NoState]
             ELSE IF Len(doc) = 1 THEN [ok |-> TRUE, muted |-> <<tag>>]
                                  ELSE [ok |-> FALSE, muted |-> NoState]
    ELSE [ok |-> FALSE, muted |-> NoState]

\* ------------------------------------------------------------ filesystem
\* The config file: whether it exists, the document it holds, and whether its
\* permissions let the process open it for reading.
NoFile == [exists |-> FALSE, content |-> <<"-">>, readable |-> TRUE]
FileOf(doc) == [exists |-> TRUE, content |-> doc, readable |-> TRUE]
Unreadable(doc) == [exists |-> TRUE, content |-> doc, readable |-> FALSE]

\* File::create + write of a whole document: the content is replaced, the
\* permissions of an existing file stay.
write_file(f, doc) ==
    [exists |-> TRUE, content |-> doc,
     readable |-> IF f.exists THEN f.readable ELSE TRUE]

Prefixes(p) == {SubSeq(p, 1, n) : n \in 1..Len(p)}

\* fs::create_dir_all: the directory and all its ancestors.
create_dir_all(ds, p) == ds \cup Prefixes(p)

\* ----------------------------------------------------------------- state
Threads == {"main", "gtk"}

VARIABLES
    dirs,          \* the directories that exist on disk
    file,          \* the config file at config_path
    newRes,        \* what AppState::new returned ("none" before it is called)
    muted,         \* MutableAppState.muted of the live store
    writer,        \* the thread holding the RwLock exclusively, or "none"
    readers,       \* the threads holding the RwLock shared
    pc,            \* per thread: where it is inside access / access_mut
    call,          \* per thread: the call in progress (closure, locals)
    ret,           \* per thread: what its last call returned
    calls,         \* access / access_mut calls started so far
    boots,         \* stores constructed so far
    allPersisted,  \* every access_mut call on the live store returned Ok(Ok(_))
    nPersisted,    \* how many access_mut calls on the live store did so
    prev,          \* the in-memory state the previous store ended with
    normalized,    \* the live store was loaded from a next_boot document
    eloop,         \* the winit event loop: phase, exit flag, queued events
    tray_icon,     \* App.tray_icon: the slot, its mutex, who wrote it
    worker,        \* the GTK thread spawned by App::run on Linux
    app,           \* the dispatcher: build mode, window, event in hand
    handled        \* the menu events handle_tray_event has finished

\* The variables of the application around the store: the event loop, the
\* tray icon and its worker thread, the dispatcher.
appVars == <<eloop, tray_icon, worker, app, handled>>

vars == <<dirs, file, newRes, muted, writer, readers, pc, call, ret, calls,
          boots, allPersisted, nPersisted, prev, normalized, eloop, tray_icon,
          worker, app, handled>>

\* -------------------------------------------------------------- closures
\* The closures handed to access_mut.  "Mute" and "MuteUntilExit" are the two
\* closures of App::handle_tray_event; "Set" is an arbitrary caller's closure
\* that stores val and then returns Ok (fail = FALSE) or Err (fail = TRUE).
MuteFn == [kind |-> "Mute", val |-> Unmuted, fail |-> FALSE]
MuteUntilExitFn == [kind |-> "MuteUntilExit", val |-> NextBoot, fail |-> FALSE]
SetFn(m, fail) == [kind |-> "Set", val |-> m, fail |-> fail]

Closures == {MuteFn, MuteUntilExitFn}
            \cup {SetFn(m, b) : m \in MuteState, b \in BOOLEAN}

\* Errors carry their kind and the offending path.
NoErr == [kind |-> "-", path |-> <<>>]
ConfigDirCreate(p) == [kind |-> "ConfigDirCreate", path |-> p]
ConfigLoad(p) == [kind |-> "ConfigLoad", path |-> p]
ConfigWrite(p) == [kind |-> "ConfigWrite", path |-> p]
\* The caller-defined error E of a failing closure.
CallerError == [kind |-> "CallerError", path |-> <<>>]

\* A closure is FnOnce: running it consumes it.
Consumed == [kind |-> "-", val |-> NoState, fail |-> FALSE]

\* The locals of a call: the closure still to run, the closure's success
\* value `res`, the state the closure found, the documents written to disk.
NoCall == [kind |-> "none", fn |-> Consumed, res |-> "-", before |-> NoState,
           wrote |-> <<>>]
NoRet == [tag |-> "none", val |-> "-", err |-> NoErr]

\* A toggle that unmutes from Manual only and mutes from everything else.
mute_toggle_manual_only(m) == IF m = Manual THEN Unmuted ELSE Manual

\* The "Mute" item: toggles between Unmuted and Manual.
mute_toggle(m) == IF is_unmuted(m) THEN Manual ELSE Unmuted

\* The state a closure leaves behind.
fn_state(fn, m) ==
    CASE fn.kind = "Mute" -> mute_toggle(m)
      [] fn.kind = "MuteUntilExit" -> NextBoot
      [] fn.kind = "Set" -> fn.val

\* The value a closure returns on success: "Set" hands back the tag it
\* replaced, the menu closures return unit.
fn_value(fn, m) == IF fn.kind = "Set" THEN m[1] ELSE "()"

\* ----------------------------------------------------------- construction
\* ConfigFile::from_path: open the file, read it, parse it.
ConfigFile_from_path(f) ==
    IF ~f.exists
    THEN [tag |-> "FileOpen", kind |-> "NotFound", muted |-> NoState]
    ELSE IF ~f.readable
    THEN [tag |-> "FileOpen", kind |-> "PermissionDenied", muted |-> NoState]
    ELSE LET parsed == from_toml(f.content)
         IN  IF parsed.ok
             THEN [tag |-> "Ok", kind |-> "-", muted |-> parsed.muted]
             ELSE [tag |-> "Deserialize", kind |-> "-", muted |-> NoState]

\* ConfigFile::default
ConfigFile_default == Unmuted

\* MutableAppState::new without the NextBoot -> Unmuted step.
MutableAppState_new_keep(f) ==
    LET loaded == ConfigFile_from_path(f)
        config == IF loaded.tag = "Ok" THEN loaded.muted ELSE ConfigFile_default
        failed == \/ loaded.tag = "FileOpen" /\ loaded.kind # "NotFound"
                  \/ loaded.tag = "Deserialize"
    IN  IF failed
        THEN [ok |-> FALSE, muted |-> NoState, err |-> ConfigLoad(config_path)]
        ELSE [ok |-> TRUE, muted |-> config, err |-> NoErr]

\* MutableAppState::new that treats a missing file like any other open error.
MutableAppState_new_strict(f) ==
    LET loaded == ConfigFile_from_path(f)
    IN  IF loaded.tag # "Ok"
        THEN [ok |-> FALSE, muted |-> NoState, err |-> ConfigLoad(config_path)]
        ELSE [ok |-> TRUE,
              muted |-> IF loaded.muted = NextBoot THEN Unmuted ELSE loaded.muted,
              err |-> NoErr]

\* MutableAppState::new that falls back to the default on a parse error too.
MutableAppState_new_lenient(f) ==
    LET loaded == ConfigFile_from_path(f)
        config == IF loaded.tag = "Ok" THEN loaded.muted ELSE ConfigFile_default
        failed == loaded.tag = "FileOpen" /\ loaded.kind # "NotFound"
    IN  IF failed
        THEN [ok |-> FALSE, muted |-> NoState, err |-> ConfigLoad(config_path)]
        ELSE [ok |-> TRUE,
              muted |-> IF config = NextBoot THEN Unmuted ELSE config,
              err |-> NoErr]

\* MutableAppState::new that turns a loaded NextBoot into Manual.
MutableAppState_new_manual(f) ==
    LET loaded == ConfigFile_from_path(f)
        config == IF loaded.tag = "Ok" THEN loaded.muted ELSE ConfigFile_default
        failed == \/ loaded.tag = "FileOpen" /\ loaded.kind # "NotFound"
                  \/ loaded.tag = "Deserialize"
    IN  IF failed
        THEN [ok |-> FALSE, muted |-> NoState, err |-> ConfigLoad(config_path)]
        ELSE [ok |-> TRUE,
              muted |-> IF config = NextBoot THEN Manual ELSE config,
              err |-> NoErr]

\* MutableAppState::new
MutableAppState_new(f) ==
    LET loaded == ConfigFile_from_path(f)
        config == IF loaded.tag = "Ok" THEN loaded.muted ELSE ConfigFile_default
        failed == \/ loaded.tag = "FileOpen" /\ loaded.kind # "NotFound"
                  \/ loaded.tag = "Deserialize"
    IN  IF failed
        THEN [ok |-> FALSE, muted |-> NoState, err |-> ConfigLoad(config_path)]
        ELSE [ok |-> TRUE,
              muted |-> IF config = NextBoot THEN Unmuted ELSE config,
              err |-> NoErr]

\* AppState::new that also creates the config and cache directories.
AppState_new_mkdirs(ds, f) ==
    [state |-> MutableAppState_new(f), dirs |-> create_dir_all(ds, cache_dir)]

\* AppState::new: the cache path is computed, the mutable state is loaded;
\* the directories on disk are left as they are.
AppState_new(ds, f) ==
    [state |-> MutableAppState_new(f), dirs |-> ds]

\* ------------------------------------------------------------------ sync
\* The outcomes of the two filesystem operations of sync (TRUE: it succeeds).
IoOutcomes == [mkdir : BOOLEAN, write : BOOLEAN]

\* sync that reports success without rewriting the file.
sync_no_write(m, path, ds, f, io) ==
    LET missing == parent(path) \notin ds
        ds2 == IF missing /\ io.mkdir THEN create_dir_all(ds, parent(path)) ELSE ds
    IN  IF missing /\ ~io.mkdir
        THEN [ok |-> FALSE, err |-> ConfigDirCreate(parent(path)),
              dirs |-> ds, file |-> f, wrote |-> <<>>]
        ELSE IF ~io.write
        THEN [ok |-> FALSE, err |-> ConfigWrite(path),
              dirs |-> ds2, file |-> f, wrote |-> <<>>]
        ELSE [ok |-> TRUE, err |-> NoErr, dirs |-> ds2, file |-> f,
              wrote |-> <<>>]

\* sync that writes ConfigFile::default() instead of the current state.
sync_default(m, path, ds, f, io) ==
    LET config == to_toml(ConfigFile_default)
        missing == parent(path) \notin ds
        ds2 == IF missing /\ io.mkdir THEN create_dir_all(ds, parent(path)) ELSE ds
    IN  IF missing /\ ~io.mkdir
        THEN [ok |-> FALSE, err |-> ConfigDirCreate(parent(path)),
              dirs |-> ds, file |-> f, wrote |-> <<>>]
        ELSE IF ~io.write
        THEN [ok |-> FALSE, err |-> ConfigWrite(path),
              dirs |-> ds2, file |-> f, wrote |-> <<>>]
        ELSE [ok |-> TRUE, err |-> NoErr,
              dirs |-> ds2, file |-> write_file(f, config), wrote |-> <<config>>]

\* sync that reports every failure as ConfigWrite with the file's path.
sync_always_config_write(m, path, ds, f, io) ==
    LET config == to_toml(m)
        missing == parent(path) \notin ds
        ds2 == IF missing /\ io.mkdir THEN create_dir_all(ds, parent(path)) ELSE ds
    IN  IF (missing /\ ~io.mkdir) \/ ~io.write
        THEN [ok |-> FALSE, err |-> ConfigWrite(path),
              dirs |-> IF missing /\ ~io.mkdir THEN ds ELSE ds2, file |-> f,
              wrote |-> <<>>]
        ELSE [ok |-> TRUE, err |-> NoErr,
              dirs |-> ds2, file |-> write_file(f, config), wrote |-> <<config>>]

\* MutableAppState::sync: build the ConfigFile from the current state, create
\* the parent directory when it is missing, rewrite the whole file.  A failed
\* write leaves the file as it was.
sync(m, path, ds, f, io) ==
    LET config == to_toml(m)
        missing == parent(path) \notin ds
        ds2 == IF missing /\ io.mkdir THEN create_dir_all(ds, parent(path)) ELSE ds
    IN  IF missing /\ ~io.mkdir
        THEN [ok |-> FALSE, err |-> ConfigDirCreate(parent(path)),
              dirs |-> ds, file |-> f, wrote |-> <<>>]
        ELSE IF ~io.write
        THEN [ok |-> FALSE, err |-> ConfigWrite(path),
              dirs |-> ds2, file |-> f, wrote |-> <<>>]
        ELSE [ok |-> TRUE, err |-> NoErr,
              dirs |-> ds2, file |-> write_file(f, config), wrote |-> <<config>>]

\* ------------------------------------------------------------ the RwLock
\* A thread parked in write() keeps later read() calls out (parking_lot's
\* task-fair policy).
WaitingWriters == {t \in Threads : pc[t] = "am_write"}

\* read() that also waits for the other readers to leave.
can_read_exclusive(t) ==
    writer = "none" /\ WaitingWriters = {} /\ readers = {}

\* RwLock::read may return.
can_read(t) == writer = "none" /\ WaitingWriters = {}

\* write() that does not wait for the readers to leave.
can_write_ignoring_readers(t) == writer = "none"

\* RwLock::write may return.
can_write(t) == writer = "none" /\ readers = {}

\* ------------------------------------------------------- return values
\* A closure error reported as the store's own ConfigWrite.
ret_fn_err_wrapped(e) ==
    [tag |-> "Err", val |-> "-", err |-> ConfigWrite(config_path)]

\* A closure error leaves access_mut through `?`.
ret_fn_err(e) == [tag |-> "Err", val |-> "-", err |-> e]

\* access_mut that returns Ok(Ok(())) instead of the closure's value.
ret_synced_unit(res, synced) ==
    IF ~synced.ok
    THEN [tag |-> "OkErr", val |-> "-", err |-> synced.err]
    ELSE [tag |-> "OkOk", val |-> "()", err |-> NoErr]

\* The value access_mut returns once the closure has succeeded: Ok(Err(err))
\* when the sync failed, Ok(Ok(res)) otherwise.
ret_synced(res, synced) ==
    IF ~synced.ok
    THEN [tag |-> "OkErr", val |-> "-", err |-> synced.err]
    ELSE [tag |-> "OkOk", val |-> res, err |-> NoErr]

\* The value access returns: the closure's result.
ret_access(r) == [tag |-> "Value", val |-> r, err |-> NoErr]

\* ------------------------------------------------------------------ Init
InitialFiles ==
    {NoFile} \cup {FileOf(d) : d \in Documents \cup {Garbage}}
             \cup {Unreadable(d) : d \in Documents}

\* App::new: no tray icon yet, no window; the loop is built but not run.
Modes == {"direct", "delegated"}

NoEloop == [phase |-> "none", exiting |-> FALSE, chan |-> <<>>, pass |-> <<>>]

\* The identifiers a MenuEvent can carry: the five handle_tray_event knows,
\* and one it does not.
MenuIds == {"3", "4", "5", "6", "7", "8"}

\* The items of the tray menu, and the identifiers MenuItem::new can give
\* them: any two different ones, the same in every run of one build.
MenuItems == {"Open", "Exit"}

IdTables == {t \in [MenuItems -> MenuIds] : t.Open # t.Exit}

NoIds == [Open |-> "-", Exit |-> "-"]

NoTrayIcon ==
    [slot |-> "None", lock |-> "none", writes |-> <<>>, handler |-> FALSE,
     ids |-> NoIds]

NoWorker == [pc |-> "none", err |-> "-", spawned |-> 0]

NoApp(m, n, ids) ==
    [mode |-> m, window |-> "None", state |-> "start", ev |-> "-",
     exitCode |-> "-", bootErr |-> "-", clicks |-> n, ids |-> ids,
     inits |-> 0]

AppInit(m, ids) ==
    /\ eloop = NoEloop
    /\ tray_icon = NoTrayIcon
    /\ worker = NoWorker
    /\ app = NoApp(m, 0, ids)
    /\ handled = <<>>

\* The directory was never used, or a run has left it complete.
FreshOrComplete == {{}, {config_dir, cache_dir}}

\* The same, or config_dir was made by hand and holds no cache yet.
FreshOrPartial == FreshOrComplete \cup {{config_dir}}

\* What an earlier run of the application can have left at config_path:
\* nothing, a document, or a file cut short.
LeftBehind == {NoFile, FileOf(to_toml(After(1))), FileOf(Garbage)}

StoreInit(ds, fs) ==
    /\ dirs \in ds
    /\ file \in IF config_dir \in dirs THEN fs ELSE {NoFile}
    /\ newRes = [tag |-> "none", err |-> NoErr]
    /\ muted = NoState
    /\ writer = "none"
    /\ readers = {}
    /\ pc = [t \in Threads |-> "idle"]
    /\ call = [t \in Threads |-> NoCall]
    /\ ret = [t \in Threads |-> NoRet]
    /\ calls = 0
    /\ boots = 0
    /\ allPersisted = TRUE
    /\ nPersisted = 0
    /\ prev = [had |-> FALSE, muted |-> NoState, persisted |-> FALSE, n |-> 0,
               normalized |-> FALSE]
    /\ normalized = FALSE

Init == StoreInit(FreshOrComplete, InitialFiles) /\ AppInit("direct", NoIds)

\* AppState::new that writes the normalised state back when it has loaded
\* next_boot.
New_rewriting ==
    /\ newRes.tag = "none"
    /\ boots < MaxBoots
    /\ LET made == AppState_new(dirs, file)
           norm == made.state.ok /\ ConfigFile_from_path(file).muted = NextBoot
       IN  /\ newRes' = [tag |-> IF made.state.ok THEN "Ok" ELSE "Err",
                         err |-> made.state.err]
           /\ muted' = made.state.muted
           /\ dirs' = made.dirs
           /\ normalized' = norm
           /\ file' = IF norm THEN write_file(file, to_toml(Unmuted)) ELSE file
    /\ boots' = boots + 1
    /\ allPersisted' = TRUE
    /\ nPersisted' = 0
    /\ UNCHANGED <<writer, readers, pc, call, ret, calls, prev, appVars>>

\* --------------------------------------------------------------- actions
\* App::new -> AppState::new(config_dir)
New ==
    /\ newRes.tag = "none"
    /\ boots < MaxBoots
    /\ LET made == AppState_new(dirs, file)
       IN  /\ newRes' = [tag |-> IF made.state.ok THEN "Ok" ELSE "Err",
                         err |-> made.state.err]
           /\ muted' = made.state.muted
           /\ dirs' = made.dirs
           /\ normalized' = (made.state.ok
                              /\ ConfigFile_from_path(file).muted = NextBoot)
    /\ boots' = boots + 1
    /\ allPersisted' = TRUE
    /\ nPersisted' = 0
    /\ UNCHANGED <<file, writer, readers, pc, call, ret, calls, prev, appVars>>

\* The store of a process that ends: what it held is remembered in prev.
ExitStore ==
    /\ newRes.tag # "none"
    /\ \A t \in Threads : pc[t] = "idle"
    /\ prev' = IF newRes.tag = "Ok"
               THEN [had |-> TRUE, muted |-> muted, persisted |-> allPersisted,
                     n |-> nPersisted, normalized |-> normalized]
               ELSE [had |-> FALSE, muted |-> NoState, persisted |-> FALSE,
                     n |-> 0, normalized |-> FALSE]
    /\ newRes' = [tag |-> "none", err |-> NoErr]
    /\ muted' = NoState
    /\ call' = [t \in Threads |-> NoCall]
    /\ ret' = [t \in Threads |-> NoRet]
    /\ normalized' = FALSE
    /\ UNCHANGED <<dirs, file, writer, readers, pc, calls, boots,
                   allPersisted, nPersisted>>

\* The process ends: App::new failed, or the event loop returned.
Exit == ExitStore /\ UNCHANGED appVars

\* A thread calls AppState::access.
CallAccess(t) ==
    /\ newRes.tag = "Ok"
    /\ pc[t] = "idle"
    /\ calls < MaxCalls
    /\ calls' = calls + 1
    /\ pc' = [pc EXCEPT ![t] = "a_read"]
    /\ call' = [call EXCEPT ![t] = [NoCall EXCEPT !.kind = "access"]]
    /\ ret' = [ret EXCEPT ![t] = NoRet]
    /\ UNCHANGED <<dirs, file, newRes, muted, writer, readers, boots,
                   allPersisted, nPersisted, prev,
                   normalized, appVars>>

\* A thread calls AppState::access_mut with closure fn.
CallAccessMut(t) ==
    /\ newRes.tag = "Ok"
    /\ pc[t] = "idle"
    /\ calls < MaxCalls
    /\ calls' = calls + 1
    /\ pc' = [pc EXCEPT ![t] = "am_write"]
    /\ \E fn \in Closures :
         call' = [call EXCEPT ![t] = [NoCall EXCEPT !.kind = "access_mut",
                                                    !.fn = fn]]
    /\ ret' = [ret EXCEPT ![t] = NoRet]
    /\ UNCHANGED <<dirs, file, newRes, muted, writer, readers, boots,
                   allPersisted, nPersisted, prev,
                   normalized, appVars>>

\* self.mut_state.write() returns: the closure starts to run.
LockWrite(t) ==
    /\ pc[t] = "am_write"
    /\ can_write(t)
    /\ writer' = t
    /\ pc' = [pc EXCEPT ![t] = "am_fn"]
    /\ call' = [call EXCEPT ![t].before = muted]
    /\ UNCHANGED <<dirs, file, newRes, muted, readers, ret, calls, boots, allPersisted, nPersisted, prev,
                   normalized, appVars>>

\* access_mut that puts the old state back when the closure fails.
RunFnMut_rollback(t) ==
    /\ pc[t] = "am_fn"
    /\ muted' = IF call[t].fn.fail THEN muted ELSE fn_state(call[t].fn, muted)
    /\ writer' = "none"
    /\ IF call[t].fn.fail
       THEN /\ ret' = [ret EXCEPT ![t] = ret_fn_err(CallerError)]
            /\ pc' = [pc EXCEPT ![t] = "idle"]
            /\ allPersisted' = FALSE
            /\ call' = [call EXCEPT ![t].fn = Consumed]
       ELSE /\ call' = [call EXCEPT ![t].res = fn_value(call[t].fn, muted),
                                    ![t].fn = Consumed]
            /\ pc' = [pc EXCEPT ![t] = "am_read"]
            /\ UNCHANGED <<ret, allPersisted>>
    /\ UNCHANGED <<dirs, file, newRes, readers, calls, boots, nPersisted, prev,
                   normalized, appVars>>

\* access_mut whose write guard lives until access_mut returns: the closure's
\* step leaves the exclusive lock held.
RunFnMut_holding(t) ==
    /\ pc[t] = "am_fn"
    /\ muted' = fn_state(call[t].fn, muted)
    /\ writer' = IF call[t].fn.fail THEN "none" ELSE writer
    /\ IF call[t].fn.fail
       THEN /\ ret' = [ret EXCEPT ![t] = ret_fn_err(CallerError)]
            /\ pc' = [pc EXCEPT ![t] = "idle"]
            /\ allPersisted' = FALSE
            /\ call' = [call EXCEPT ![t].fn = Consumed]
       ELSE /\ call' = [call EXCEPT ![t].res = fn_value(call[t].fn, muted),
                                    ![t].fn = Consumed]
            /\ pc' = [pc EXCEPT ![t] = "am_read"]
            /\ UNCHANGED <<ret, allPersisted>>
    /\ UNCHANGED <<dirs, file, newRes, readers, calls, boots, nPersisted, prev,
                   normalized, appVars>>

\* access_fn(&mut *lock)? : the closure mutates the state and returns; the
\* write guard is dropped either way, and an Err leaves access_mut at once.
RunFnMut(t) ==
    /\ pc[t] = "am_fn"
    /\ muted' = fn_state(call[t].fn, muted)
    /\ writer' = "none"
    /\ IF call[t].fn.fail
       THEN /\ ret' = [ret EXCEPT ![t] = ret_fn_err(CallerError)]
            /\ pc' = [pc EXCEPT ![t] = "idle"]
            /\ allPersisted' = FALSE
            /\ call' = [call EXCEPT ![t].fn = Consumed]
       ELSE /\ call' = [call EXCEPT ![t].res = fn_value(call[t].fn, muted),
                                    ![t].fn = Consumed]
            /\ pc' = [pc EXCEPT ![t] = "am_read"]
            /\ UNCHANGED <<ret, allPersisted>>
    /\ UNCHANGED <<dirs, file, newRes, readers, calls, boots, nPersisted, prev,
                   normalized, appVars>>

\* access_mut that syncs without taking the shared lock.
LockRead_unguarded(t) ==
    /\ pc[t] \in {"a_read", "am_read"}
    /\ can_read(t)
    /\ readers' = IF pc[t] = "a_read" THEN readers \cup {t} ELSE readers
    /\ pc' = [pc EXCEPT ![t] = IF pc[t] = "a_read" THEN "a_fn" ELSE "am_sync"]
    /\ UNCHANGED <<dirs, file, newRes, muted, writer, call, ret, calls, boots, allPersisted, nPersisted, prev,
                   normalized, appVars>>

\* self.mut_state.read() returns, in access and in access_mut.
LockRead(t) ==
    /\ pc[t] \in {"a_read", "am_read"}
    /\ can_read(t)
    /\ readers' = readers \cup {t}
    /\ pc' = [pc EXCEPT ![t] = IF pc[t] = "a_read" THEN "a_fn" ELSE "am_sync"]
    /\ UNCHANGED <<dirs, file, newRes, muted, writer, call, ret, calls, boots, allPersisted, nPersisted, prev,
                   normalized, appVars>>

\* access_fn(&*lock): the reading closure returns what it saw.
RunFn(t) ==
    /\ pc[t] = "a_fn"
    /\ ret' = [ret EXCEPT ![t] = ret_access(muted)]
    /\ readers' = readers \ {t}
    /\ pc' = [pc EXCEPT ![t] = "idle"]
    /\ UNCHANGED <<dirs, file, newRes, muted, writer, call, calls, boots, allPersisted, nPersisted, prev,
                   normalized, appVars>>

\* access_mut that restores the state the closure found when the sync fails.
Sync_rollback(t) ==
    /\ pc[t] = "am_sync"
    /\ \E io \in IoOutcomes :
         LET synced == sync(muted, config_path, dirs, file, io)
         IN  /\ dirs' = synced.dirs
             /\ file' = synced.file
             /\ call' = [call EXCEPT ![t].wrote = call[t].wrote \o synced.wrote]
             /\ ret' = [ret EXCEPT ![t] = ret_synced(call[t].res, synced)]
             /\ allPersisted' = (allPersisted /\ synced.ok)
             /\ nPersisted' = IF synced.ok THEN nPersisted + 1 ELSE nPersisted
             /\ muted' = IF synced.ok THEN muted ELSE call[t].before
    /\ readers' = readers \ {t}
    /\ pc' = [pc EXCEPT ![t] = "idle"]
    /\ UNCHANGED <<newRes, writer, calls, boots, prev,
                   normalized, appVars>>

\* access_mut that writes the state the closure found, not the one it left.
Sync_stale(t) ==
    /\ pc[t] = "am_sync"
    /\ \E io \in IoOutcomes :
         LET synced == sync(call[t].before, config_path, dirs, file, io)
         IN  /\ dirs' = synced.dirs
             /\ file' = synced.file
             /\ call' = [call EXCEPT ![t].wrote = call[t].wrote \o synced.wrote]
             /\ ret' = [ret EXCEPT ![t] = ret_synced(call[t].res, synced)]
             /\ allPersisted' = (allPersisted /\ synced.ok)
             /\ nPersisted' = IF synced.ok THEN nPersisted + 1 ELSE nPersisted
    /\ readers' = readers \ {t}
    /\ pc' = [pc EXCEPT ![t] = "idle"]
    /\ UNCHANGED <<newRes, muted, writer, calls, boots, prev,
                   normalized, appVars>>

\* .sync(&config_path) under the read guard, then the return of access_mut.
Sync(t) ==
    /\ pc[t] = "am_sync"
    /\ \E io \in IoOutcomes :
         LET synced == sync(muted, config_path, dirs, file, io)
         IN  /\ dirs' = synced.dirs
             /\ file' = synced.file
             /\ call' = [call EXCEPT ![t].wrote = call[t].wrote \o synced.wrote]
             /\ ret' = [ret EXCEPT ![t] = ret_synced(call[t].res, synced)]
             /\ allPersisted' = (allPersisted /\ synced.ok)
             /\ nPersisted' = IF synced.ok THEN nPersisted + 1 ELSE nPersisted
    /\ readers' = readers \ {t}
    /\ pc' = [pc EXCEPT ![t] = "idle"]
    /\ UNCHANGED <<newRes, muted, writer, calls, boots, prev,
                   normalized, appVars>>

Next ==
    \/ New
    \/ Exit
    \/ \E t \in Threads : CallAccess(t)
    \/ \E t \in Threads : CallAccessMut(t)
    \/ \E t \in Threads : LockWrite(t)
    \/ \E t \in Threads : RunFnMut(t)
    \/ \E t \in Threads : LockRead(t)
    \/ \E t \in Threads : RunFn(t)
    \/ \E t \in Threads : Sync(t)

Spec == Init /\ [][Next]_vars

\* The store with threads that keep running and a lock that is handed out:
\* a closure that has started returns, a sync that has started returns, and
\* a thread parked in read() or write() gets the lock if it is free again and
\* again (parking_lot hands the lock to parked threads in turn).
Fairness ==
    \A t \in Threads :
        /\ WF_vars(RunFnMut(t))
        /\ WF_vars(RunFn(t))
        /\ WF_vars(Sync(t))
        /\ SF_vars(LockWrite(t))
        /\ SF_vars(LockRead(t))

\* One process over a complete directory: the store is constructed once and
\* its two threads call into it.
NextLive ==
    \/ New
    \/ \E t \in Threads : CallAccess(t)
    \/ \E t \in Threads : CallAccessMut(t)
    \/ \E t \in Threads : LockWrite(t)
    \/ \E t \in Threads : RunFnMut(t)
    \/ \E t \in Threads : LockRead(t)
    \/ \E t \in Threads : RunFn(t)
    \/ \E t \in Threads : Sync(t)

InitLive == StoreInit({{config_dir, cache_dir}}, LeftBehind) /\ AppInit("direct", NoIds)

SpecLive == InitLive /\ [][NextLive]_vars /\ Fairness

\* ======================================================================
\* The application: main, App::run, the tray icon and its GTK thread
\* ======================================================================
MaxClicks == 2

\* handle_tray_event whose "6" arm leaves the loop like "7".
handler_of_six_exits(id) ==
    CASE id = "3" -> "Open"
      [] id = "4" -> "Mute"
      [] id = "5" -> "MuteUntilExit"
      [] id \in {"6", "7"} -> "Exit"
      [] OTHER -> "unknown"

\* handle_tray_event that treats every other identifier as "4".
handler_of_other_mutes(id) ==
    CASE id = "3" -> "Open"
      [] id = "5" -> "MuteUntilExit"
      [] id = "6" -> "MuteFor"
      [] id = "7" -> "Exit"
      [] OTHER -> "Mute"

\* What handle_tray_event does with an identifier.
handler_of(id) ==
    CASE id = "3" -> "Open"
      [] id = "4" -> "Mute"
      [] id = "5" -> "MuteUntilExit"
      [] id = "6" -> "MuteFor"
      [] id = "7" -> "Exit"
      [] OTHER -> "unknown"

\* handle_tray_event that hands the toggling closure to access_mut for "5" too.
closure_of_mute(id) == MuteFn

\* The closure handle_tray_event hands to access_mut.
closure_of(id) == IF id = "4" THEN MuteFn ELSE MuteUntilExitFn

\* Where TrayIcon::new can stop: at one of its six errors, or not at all.
\* The cache directory is only created when it does not exist.
TrayErrors == {"CacheDirCreate", "ImageConvert", "IconCreate",
               "MenuAppendItem", "TrayIconCreate", "TrayIconVisible"}

TrayOutcomes(ds) ==
    {"Ok"} \cup (IF cache_dir \in ds THEN TrayErrors \ {"CacheDirCreate"}
                 ELSE TrayErrors)

\* TrayIcon::new: the directories it leaves, whether it installed the
\* MenuEvent handler before it returned, the identifiers of its two menu
\* items, and its result.
TrayIcon_new(ds, o, ids) ==
    [ok |-> o = "Ok",
     ids |-> IF o = "Ok" THEN ids ELSE NoIds,
     err |-> IF o = "Ok" THEN "-" ELSE o,
     dirs |-> IF o = "CacheDirCreate" THEN ds ELSE create_dir_all(ds, cache_dir),
     handler |-> o \in {"Ok", "TrayIconVisible"}]

\* One record of `handled`: the event, the process it was handled in, the
\* store's value before and after, the documents written, whether access_mut
\* returned Ok(Ok(())), and whether the write lock was taken.
Handled(id, before, after, wrote, ok, write) ==
    [id |-> id, boot |-> boots, before |-> before, after |-> after,
     wrote |-> wrote, ok |-> ok, write |-> write]

storeVars == <<file, newRes, muted, writer, readers, pc, call, ret, calls,
               boots, allPersisted, nPersisted, prev, normalized>>

\* main: the process has ended with this exit code.
ended(code) == [app EXCEPT !.state = "ended", !.exitCode = code]

\* main, PREPARATION: create config_dir and its cache when config_dir is absent.
Prepare ==
    /\ app.state = "start"
    /\ boots < MaxBoots
    /\ IF config_dir \in dirs
       THEN /\ app' = [app EXCEPT !.state = "prepared"]
            /\ dirs' = dirs
       ELSE \E o \in {"ok", "config_dir", "cache_dir"} :
              /\ dirs' = CASE o = "ok" -> create_dir_all(dirs, cache_dir)
                           [] o = "cache_dir" -> create_dir_all(dirs, config_dir)
                           [] o = "config_dir" -> dirs
              /\ app' = IF o = "ok" THEN [app EXCEPT !.state = "prepared"]
                        ELSE ended(1)
    /\ UNCHANGED <<storeVars, eloop, tray_icon, worker, handled>>

\* App::new, first half: AppState::new.
AppNew == app.state = "prepared" /\ New

\* App::new returned Err(AppStateCreate): the process ends with an error.
AppStateCreateFails ==
    /\ app.state = "prepared"
    /\ newRes.tag = "Err"
    /\ app' = ended(1)
    /\ UNCHANGED <<dirs, storeVars, eloop, tray_icon, worker, handled>>

\* App::new, second half: EventLoopBuilder::with_user_event().build().
BuildEventLoop ==
    /\ app.state = "prepared"
    /\ newRes.tag = "Ok"
    /\ eloop.phase = "none"
    /\ \E ok \in BOOLEAN :
         IF ok
         THEN /\ eloop' = [eloop EXCEPT !.phase = "built"]
              /\ app' = app
         ELSE /\ app' = ended(1)
              /\ eloop' = eloop
    /\ UNCHANGED <<dirs, storeVars, tray_icon, worker, handled>>

\* A build that spawns a thread for the tray icon on every platform.
spawns_worker_always(mode) == TRUE

\* #[cfg(target_os = "linux")]: the Init arm spawns the GTK thread; on every
\* other platform it builds the tray icon itself.
spawns_worker(mode) == mode = "delegated"

\* App::run, StartCause::Init.  Without GTK the tray icon is built here and
\* stored, and a failure asks the loop to exit; with GTK a thread is spawned
\* to build it.
RunInit ==
    /\ eloop.phase = "built"
    /\ app.state = "prepared"
    /\ IF ~spawns_worker(app.mode)
       THEN \E o \in TrayOutcomes(dirs) :
              LET made == TrayIcon_new(dirs, o, app.ids)
              IN  /\ dirs' = made.dirs
                  /\ tray_icon' =
                        IF made.ok
                        THEN [tray_icon EXCEPT
                                !.slot = "Some",
                                !.writes = Append(tray_icon.writes, "main"),
                                !.handler = made.handler,
                                !.ids = made.ids]
                        ELSE [tray_icon EXCEPT !.handler = made.handler]
                  /\ app' = [app EXCEPT !.state = "idle", !.bootErr = made.err,
                                        !.inits = app.inits + 1]
                  /\ eloop' = [eloop EXCEPT !.phase = "running",
                                            !.exiting = ~made.ok]
                  /\ worker' = worker
       ELSE /\ worker' = [worker EXCEPT !.pc = "gtk_init",
                                         !.spawned = worker.spawned + 1]
            /\ app' = [app EXCEPT !.state = "idle", !.inits = app.inits + 1]
            /\ eloop' = [eloop EXCEPT !.phase = "running"]
            /\ UNCHANGED <<dirs, tray_icon>>
    /\ UNCHANGED <<storeVars, handled>>

\* The GTK thread: gtk::init().
WorkerGtkInit ==
    /\ worker.pc = "gtk_init"
    /\ \E ok \in BOOLEAN :
         worker' = IF ok THEN [worker EXCEPT !.pc = "tray_new"]
                   ELSE [worker EXCEPT !.pc = "dead", !.err = "GtkInit"]
    /\ UNCHANGED <<dirs, storeVars, eloop, tray_icon, app, handled>>

\* A GTK thread that enters gtk::main() straight after TrayIcon::new.
WorkerTrayNew_unpublished ==
    /\ worker.pc = "tray_new"
    /\ \E o \in TrayOutcomes(dirs) :
         LET made == TrayIcon_new(dirs, o, app.ids)
         IN  /\ dirs' = made.dirs
             /\ tray_icon' = [tray_icon EXCEPT !.handler = made.handler,
                                               !.ids = made.ids]
             /\ worker' = IF made.ok THEN [worker EXCEPT !.pc = "gtk_main"]
                          ELSE [worker EXCEPT !.pc = "dead", !.err = made.err]
    /\ UNCHANGED <<storeVars, eloop, app, handled>>

\* The GTK thread: TrayIcon::new(&state, proxy).
WorkerTrayNew ==
    /\ worker.pc = "tray_new"
    /\ \E o \in TrayOutcomes(dirs) :
         LET made == TrayIcon_new(dirs, o, app.ids)
         IN  /\ dirs' = made.dirs
             /\ tray_icon' = [tray_icon EXCEPT !.handler = made.handler,
                                               !.ids = made.ids]
             /\ worker' = IF made.ok THEN [worker EXCEPT !.pc = "lock"]
                          ELSE [worker EXCEPT !.pc = "dead", !.err = made.err]
    /\ UNCHANGED <<storeVars, eloop, app, handled>>

\* The GTK thread takes the mutex without waiting for it.
WorkerLock_unlocked ==
    /\ worker.pc = "lock"
    /\ worker' = [worker EXCEPT !.pc = "publish"]
    /\ UNCHANGED <<dirs, storeVars, eloop, tray_icon, app, handled>>

\* The GTK thread: tray_icon.lock().
WorkerLock ==
    /\ worker.pc = "lock"
    /\ tray_icon.lock = "none"
    /\ tray_icon' = [tray_icon EXCEPT !.lock = "gtk"]
    /\ worker' = [worker EXCEPT !.pc = "publish"]
    /\ UNCHANGED <<dirs, storeVars, eloop, app, handled>>

\* The GTK thread: *lock = Some(icon); the guard is dropped with its scope.
WorkerPublish ==
    /\ worker.pc = "publish"
    /\ tray_icon' = [tray_icon EXCEPT
                       !.slot = "Some",
                       !.writes = Append(tray_icon.writes, "gtk"),
                       !.lock = "none"]
    /\ worker' = [worker EXCEPT !.pc = "gtk_main"]
    /\ UNCHANGED <<dirs, storeVars, eloop, app, handled>>

\* Menu clicks are raised as soon as the MenuEvent handler is installed.
can_click_registered ==
    /\ tray_icon.handler
    /\ eloop.phase \in {"running", "stopped", "failed"}
    /\ app.state # "ended"

\* Menu clicks are raised by the loop that owns the tray icon: gtk::main()
\* on the GTK thread, or the event loop itself between two events.
can_click ==
    IF app.mode = "delegated"
    THEN worker.pc = "gtk_main" /\ app.state # "ended"
    ELSE /\ tray_icon.slot = "Some"
         /\ eloop.phase = "running"
         /\ app.state = "idle"

\* A MenuEvent handler that toggles the store itself, without the lock, and
\* sends nothing.
Click_mutating ==
    /\ can_click
    /\ app.clicks < MaxClicks
    /\ app' = [app EXCEPT !.clicks = app.clicks + 1]
    /\ muted' = IF newRes.tag = "Ok" THEN mute_toggle(muted) ELSE muted
    /\ UNCHANGED <<dirs, file, newRes, writer, readers, pc, call, ret, calls,
                   boots, allPersisted, nPersisted, prev, normalized, eloop,
                   tray_icon, worker, handled>>

\* A MenuEvent handler that unwraps the result of send_event: when the loop
\* is gone the thread it runs on panics.
Click_unwrapping ==
    /\ can_click
    /\ app.clicks < MaxClicks
    /\ app' = [app EXCEPT !.clicks = app.clicks + 1]
    /\ \E item \in MenuItems :
         eloop' = IF eloop.phase = "running"
                  THEN [eloop EXCEPT
                          !.chan = Append(eloop.chan, tray_icon.ids[item])]
                  ELSE eloop
    /\ worker' = IF eloop.phase = "running" THEN worker
                 ELSE [worker EXCEPT !.pc = "dead", !.err = "SendEvent"]
    /\ UNCHANGED <<dirs, storeVars, tray_icon, handled>>

\* An item of the tray menu is clicked and the MenuEvent handler runs:
\* eloop.send_event(event) with the item's identifier; when the loop is gone
\* the failure is logged and the event is lost.
Click ==
    /\ can_click
    /\ app.clicks < MaxClicks
    /\ app' = [app EXCEPT !.clicks = app.clicks + 1]
    /\ \E item \in MenuItems :
         eloop' = IF eloop.phase = "running"
                  THEN [eloop EXCEPT
                          !.chan = Append(eloop.chan, tray_icon.ids[item])]
                  ELSE eloop
    /\ UNCHANGED <<dirs, storeVars, tray_icon, worker, handled>>

\* The sequence s, last element first.
Reverse(s) == [i \in 1..Len(s) |-> s[Len(s) + 1 - i]]

\* A loop that delivers the newest user event first.
BeginPass_newest_first ==
    /\ eloop.phase = "running"
    /\ app.state = "idle"
    /\ eloop.pass = <<>>
    /\ ~eloop.exiting
    /\ eloop.chan # <<>>
    /\ eloop' = [eloop EXCEPT !.pass = Reverse(eloop.chan), !.chan = <<>>]
    /\ UNCHANGED <<dirs, storeVars, tray_icon, worker, app, handled>>

\* The loop starts an iteration: the user events sent so far are the ones it
\* will deliver in this pass.
BeginPass ==
    /\ eloop.phase = "running"
    /\ app.state = "idle"
    /\ eloop.pass = <<>>
    /\ ~eloop.exiting
    /\ eloop.chan # <<>>
    /\ eloop' = [eloop EXCEPT !.pass = eloop.chan, !.chan = <<>>]
    /\ UNCHANGED <<dirs, storeVars, tray_icon, worker, app, handled>>

\* Event::UserEvent(event) => Self::handle_tray_event(&self.state, eloop,
\* event).  "4" and "5" call access_mut; "7" calls eloop.exit(); every other
\* identifier is only logged.
Dispatch ==
    /\ eloop.phase = "running"
    /\ app.state = "idle"
    /\ eloop.pass # <<>>
    /\ LET id == Head(eloop.pass)
           h == handler_of(id)
       IN  IF h \in {"Mute", "MuteUntilExit"}
           THEN /\ eloop' = [eloop EXCEPT !.pass = Tail(eloop.pass)]
                /\ app' = [app EXCEPT !.state = "handling", !.ev = id]
                /\ pc' = [pc EXCEPT !["main"] = "am_write"]
                /\ call' = [call EXCEPT !["main"] =
                              [NoCall EXCEPT !.kind = "access_mut",
                                             !.fn = closure_of(id)]]
                /\ ret' = [ret EXCEPT !["main"] = NoRet]
                /\ handled' = handled
           ELSE /\ eloop' = [eloop EXCEPT
                               !.pass = Tail(eloop.pass),
                               !.exiting = eloop.exiting \/ h = "Exit"]
                /\ handled' = Append(handled,
                                Handled(id, muted, muted, <<>>, TRUE, FALSE))
                /\ UNCHANGED <<app, pc, call, ret>>
    /\ UNCHANGED <<dirs, file, newRes, muted, writer, readers, calls, boots,
                   allPersisted, nPersisted, prev, normalized, tray_icon,
                   worker>>

\* handle_tray_event that asks the loop to exit when the sync has failed.
EndHandle_fatal ==
    /\ app.state = "handling"
    /\ pc["main"] = "idle"
    /\ ret["main"].tag \in {"OkOk", "OkErr"}
    /\ handled' = Append(handled,
                    Handled(app.ev, call["main"].before, muted,
                            call["main"].wrote, ret["main"].tag = "OkOk",
                            TRUE))
    /\ app' = [app EXCEPT !.state = "idle", !.ev = "-"]
    /\ eloop' = [eloop EXCEPT
                   !.exiting = eloop.exiting \/ ret["main"].tag = "OkErr"]
    /\ UNCHANGED <<dirs, storeVars, tray_icon, worker>>

\* access_mut has returned into handle_tray_event: the outer Result is
\* unwrapped, a failed sync is logged, and the handler returns.
EndHandle ==
    /\ app.state = "handling"
    /\ pc["main"] = "idle"
    /\ ret["main"].tag \in {"OkOk", "OkErr"}
    /\ handled' = Append(handled,
                    Handled(app.ev, call["main"].before, muted,
                            call["main"].wrote, ret["main"].tag = "OkOk",
                            TRUE))
    /\ app' = [app EXCEPT !.state = "idle", !.ev = "-"]
    /\ UNCHANGED <<dirs, storeVars, eloop, tray_icon, worker>>

\* The iteration is over and eloop.exit() was called in it: run returns Ok.
LoopExit ==
    /\ eloop.phase = "running"
    /\ app.state = "idle"
    /\ eloop.pass = <<>>
    /\ eloop.exiting
    /\ eloop' = [eloop EXCEPT !.phase = "stopped"]
    /\ UNCHANGED <<dirs, storeVars, tray_icon, worker, app, handled>>

\* The backend fails between two iterations: run returns Err.
LoopRunError ==
    /\ eloop.phase = "running"
    /\ app.state = "idle"
    /\ eloop.pass = <<>>
    /\ ~eloop.exiting
    /\ eloop' = [eloop EXCEPT !.phase = "failed"]
    /\ UNCHANGED <<dirs, storeVars, tray_icon, worker, app, handled>>

\* The exit code main ends with once the loop has returned.
exit_code(phase, bootErr) == IF phase = "stopped" THEN 0 ELSE 1

\* main after eloop.run: Err => std::process::exit(1), Ok => "Bye.".
MainExit ==
    /\ eloop.phase \in {"stopped", "failed"}
    /\ app.state = "idle"
    /\ app' = ended(exit_code(eloop.phase, app.bootErr))
    /\ UNCHANGED <<dirs, storeVars, eloop, tray_icon, worker, handled>>

\* The program is started again over the same directory.
Restart ==
    /\ app.state = "ended"
    /\ boots < MaxBoots
    /\ IF newRes.tag # "none" THEN ExitStore ELSE UNCHANGED storeVars
    /\ dirs' = dirs
    /\ eloop' = NoEloop
    /\ tray_icon' = NoTrayIcon
    /\ worker' = NoWorker
    /\ app' = NoApp(app.mode, app.clicks, app.ids)
    /\ handled' = handled

NextApp ==
    \/ Prepare
    \/ AppNew
    \/ AppStateCreateFails
    \/ BuildEventLoop
    \/ RunInit
    \/ WorkerGtkInit
    \/ WorkerTrayNew
    \/ WorkerLock
    \/ WorkerPublish
    \/ Click
    \/ BeginPass
    \/ Dispatch
    \/ LockWrite("main")
    \/ RunFnMut("main")
    \/ LockRead("main")
    \/ Sync("main")
    \/ EndHandle
    \/ LoopExit
    \/ LoopRunError
    \/ MainExit
    \/ Restart

InitApp ==
    /\ StoreInit(FreshOrPartial, LeftBehind)
    /\ \E m \in Modes, ids \in IdTables : AppInit(m, ids)

SpecApp == InitApp /\ [][NextApp]_vars

\* ======================================================================
\* The application with a window: App of app/mod.rs
\* ======================================================================
\* The identifiers the platform gives to windows, and the window events the
\* handler tells apart.
WindowIds == {"w1", "w2"}

WindowEvents == {"CloseRequested", "Resized", "RedrawRequested"}

\* Window::handle_event: whether the window asks to be closed.
handle_event(kind) == kind = "CloseRequested"

\* The Event::WindowEvent arm that closes the window whatever the event's
\* window_id.
window_event_any_id(window, window_id, kind) ==
    IF window # "None" /\ handle_event(kind) THEN "None" ELSE window

\* The Event::WindowEvent arm that never clears self.window.
window_event_keep(window, window_id, kind) == window

\* The Event::WindowEvent arm of App::run: self.window afterwards.
window_event(window, window_id, kind) ==
    LET close == IF window # "None" /\ window_id = window
                 THEN handle_event(kind) ELSE FALSE
    IN  IF close THEN "None" ELSE window

\* One record of `handled` for a window event.
WinHandled(window_id, kind, before, after) ==
    [id |-> kind, window |-> window_id, boot |-> boots, before |-> before,
     after |-> after]

\* App::new: AppState::new(config_dir).
WinNew == app.state = "start" /\ New

\* App::new builds the event loop and App::run enters it.
WinRun ==
    /\ app.state = "start"
    /\ newRes.tag = "Ok"
    /\ eloop.phase = "none"
    /\ eloop' = [eloop EXCEPT !.phase = "running"]
    /\ app' = [app EXCEPT !.state = "idle"]
    /\ UNCHANGED <<dirs, storeVars, tray_icon, worker, handled>>

\* A window is spawned and stored in self.window.
OpenWindow ==
    /\ eloop.phase = "running"
    /\ app.window = "None"
    /\ app.clicks < MaxClicks
    /\ \E w \in WindowIds :
         app' = [app EXCEPT !.window = w, !.clicks = app.clicks + 1]
    /\ UNCHANGED <<dirs, storeVars, eloop, tray_icon, worker, handled>>

\* Event::WindowEvent { window_id, event }
WindowEvent ==
    /\ eloop.phase = "running"
    /\ app.clicks < MaxClicks
    /\ \E window_id \in WindowIds, kind \in WindowEvents :
         LET after == window_event(app.window, window_id, kind)
         IN  /\ app' = [app EXCEPT !.window = after,
                                   !.clicks = app.clicks + 1]
             /\ handled' = Append(handled,
                             WinHandled(window_id, kind, app.window, after))
    /\ UNCHANGED <<dirs, storeVars, eloop, tray_icon, worker>>

NextWin ==
    \/ WinNew
    \/ WinRun
    \/ OpenWindow
    \/ WindowEvent
    \/ LoopRunError

InitWin == StoreInit(FreshOrComplete, LeftBehind) /\ AppInit("direct", NoIds)

SpecWin == InitWin /\ [][NextWin]_vars

\* ======================================================================
\* Properties
\* ======================================================================

\* The step in which AppState::new returns.
NewStep == newRes.tag = "none" /\ newRes'.tag # "none"

\* The step in which thread t's sync, and with it its access_mut, returns.
SyncStep(t) == pc[t] = "am_sync" /\ pc'[t] = "idle"

\* The step in which thread t's closure returns inside access_mut.
FnStep(t) == pc[t] = "am_fn" /\ pc'[t] # "am_fn"

\* C1 (as claimed): a store constructed after a run in which every access_mut
\* call persisted holds the muted value the old store ended with, whatever
\* that value was.
C1_RoundTripEveryValue ==
    [][(NewStep /\ prev.had /\ prev.persisted /\ newRes'.tag = "Ok")
         => muted' = prev.muted]_vars

\* C1 (amended): a store constructed after a run in which every access_mut
\* call persisted holds the muted value the old store ended with, except that
\* a final NextBoot is reloaded as Unmuted.
C1_RoundTrip ==
    [][(NewStep /\ prev.had /\ prev.persisted /\ newRes'.tag = "Ok")
         => muted' = IF prev.muted = NextBoot THEN Unmuted ELSE prev.muted]_vars

\* C1 witness: a second store has reloaded the After value that the first
\* store wrote and persisted.
C1_Witness ==
    /\ boots = 2 /\ newRes.tag = "Ok"
    /\ prev.had /\ prev.persisted /\ prev.n >= 1
    /\ prev.muted = After(1) /\ muted = After(1)

\* C2 (as claimed): the muted value of a constructed store is never NextBoot.
C2_NeverNextBoot == newRes.tag = "Ok" => muted # NextBoot

\* C2 (amended): the constructor never yields NextBoot; the in-memory value
\* becomes NextBoot only in the step in which a closure run by access_mut
\* stores it.
C2_NextBootOnlyByClosure ==
    [][(muted' = NextBoot /\ muted # NextBoot)
         => \E t \in Threads :
              FnStep(t) /\ fn_state(call[t].fn, muted) = NextBoot]_vars

\* C2 witness: the constructor has loaded a next_boot document, and the store
\* holds Unmuted.
C2_Witness ==
    /\ newRes.tag = "Ok" /\ calls = 0
    /\ file.exists /\ file.content = to_toml(NextBoot)
    /\ muted = Unmuted

\* C3: an access_mut call whose closure succeeded reports a failure exactly
\* when its sync wrote nothing; it then returns
\* Ok(Err(ConfigDirCreate | ConfigWrite)), the in-memory state is left as the
\* closures made it, and the config file still holds what it held before.
C3_FailedSyncKeepsMutation ==
    [][\A t \in Threads :
         SyncStep(t)
           => /\ ret'[t].tag = "OkErr" <=> call'[t].wrote = <<>>
              /\ ret'[t].tag # "OkOk"
                   => /\ ret'[t].tag = "OkErr"
                      /\ ret'[t].err.kind \in {"ConfigDirCreate", "ConfigWrite"}
                      /\ muted' = muted
                      /\ file' = file]_vars

\* C3 witness: a call has returned a ConfigWrite failure; memory holds the
\* closure's mutation and the file holds the document of the state before it.
C3_Witness ==
    \E t \in Threads :
      /\ pc[t] = "idle" /\ ret[t].tag = "OkErr"
      /\ ret[t].err = ConfigWrite(config_path)
      /\ muted = Manual /\ call[t].before = Unmuted
      /\ file.exists /\ file.content = to_toml(Unmuted)

\* C4: a call whose closure failed returned exactly the closure's error, and
\* wrote nothing to disk.
C4_FnErrorVerbatim ==
    \A t \in Threads :
      ret[t].tag = "Err"
        => /\ ret[t].err = CallerError
           /\ pc[t] = "idle"
           /\ call[t].wrote = <<>>

\* C4 witness: a failing closure has changed the state and the call has
\* returned its error; the file still holds the older document.
C4_Witness ==
    \E t \in Threads :
      /\ ret[t].tag = "Err" /\ call[t].before # muted
      /\ file.exists /\ file.content = to_toml(call[t].before)

\* C5: a call that returns Ok(Ok(_)) has written the file exactly once, and
\* what it wrote is the whole document of the state at that moment.
C5_OneWholeWrite ==
    [][\A t \in Threads :
         (SyncStep(t) /\ ret'[t].tag = "OkOk")
           => /\ call[t].wrote = <<>>
              /\ call'[t].wrote = <<to_toml(muted)>>
              /\ file'.exists /\ file'.content = to_toml(muted)]_vars

\* C5 witness: a call has returned Ok(Ok(_)) after one write of a document
\* that differs from the one of the state its closure found.
C5_Witness ==
    \E t \in Threads :
      /\ ret[t].tag = "OkOk" /\ Len(call[t].wrote) = 1
      /\ call[t].wrote[1] # to_toml(call[t].before)
      /\ file.content = call[t].wrote[1]

\* C6 (as claimed): whenever the closure succeeded, the value access_mut
\* returns carries the closure's success value, whether the sync succeeded
\* or failed.
C6_ValueAlwaysReturned ==
    \A t \in Threads :
      ret[t].tag \in {"OkOk", "OkErr"} => ret[t].val = call[t].res

\* C6 (amended): access_mut returns the closure's success value when the sync
\* succeeded; when the sync failed it returns the sync's error alone, and the
\* success value is dropped.
C6_ValueOnlyWhenPersisted ==
    \A t \in Threads :
      /\ ret[t].tag = "OkOk"
           => ret[t].val = call[t].res /\ ret[t].err = NoErr
      /\ ret[t].tag = "OkErr"
           => /\ ret[t].val = "-"
              /\ ret[t].err.kind \in {"ConfigDirCreate", "ConfigWrite"}

\* C6 witness: one call returned its closure's value, another returned only
\* the sync error although its closure had produced a value.
C6_Witness ==
    \E t, u \in Threads :
      /\ ret[t].tag = "OkOk" /\ ret[t].val = "Unmuted"
      /\ ret[u].tag = "OkErr" /\ call[u].res = "Manual"

\* C7: at most one access_mut closure runs at a time, no access closure runs
\* while one does, and the lock is never held exclusively and shared at once.
C7_WriterExclusive ==
    /\ Cardinality({t \in Threads : pc[t] = "am_fn"}) <= 1
    /\ (\E t \in Threads : pc[t] = "am_fn")
         => ~(\E u \in Threads : pc[u] = "a_fn")
    /\ writer # "none" => readers = {}

\* C7 witness: a closure is running under the write lock while the other
\* thread is waiting to read.
C7_Witness ==
    \E t, u \in Threads : pc[t] = "am_fn" /\ pc[u] = "a_read"

C9_MissingFileIsDefault ==
    [][(NewStep /\ ~file.exists)
         => /\ newRes' = [tag |-> "Ok", err |-> NoErr]
            /\ muted' = Unmuted]_vars

\* C9 witness: config_dir exists, the file does not, and a store was
\* constructed.
C9_Witness ==
    /\ newRes.tag = "Ok" /\ calls = 0
    /\ config_dir \in dirs /\ ~file.exists
    /\ muted = Unmuted

\* C10: constructing the store while the config file exists but cannot be
\* opened, or holds no parseable document, fails with ConfigLoad carrying the
\* path of the config file, and no store state is produced.
C10_BadFileIsConfigLoad ==
    [][(NewStep /\ file.exists
          /\ (~file.readable \/ ~from_toml(file.content).ok))
         => /\ newRes' = [tag |-> "Err", err |-> ConfigLoad(config_path)]
            /\ muted' = NoState]_vars

\* C10 witness: the file exists but cannot be opened, and construction has
\* failed with ConfigLoad.
C10_Witness ==
    /\ newRes.tag = "Err" /\ newRes.err.kind = "ConfigLoad"
    /\ file.exists /\ ~file.readable
    /\ muted = NoState

\* C11: constructing a store over a readable file that holds next_boot
\* succeeds with Unmuted in memory; and when the store so loaded ended with
\* Unmuted in memory and every access_mut on it (at least one) persisted, the
\* next store constructed over the same directory is Unmuted again.
C11_NextBootLoadsUnmuted ==
    [][/\ (NewStep /\ file.exists /\ file.readable
             /\ file.content = to_toml(NextBoot))
          => /\ newRes' = [tag |-> "Ok", err |-> NoErr]
             /\ muted' = Unmuted
       /\ (NewStep /\ prev.had /\ prev.normalized /\ prev.persisted
             /\ prev.n >= 1 /\ prev.muted = Unmuted)
          => /\ newRes'.tag = "Ok"
             /\ muted' = Unmuted
             /\ file.content = to_toml(Unmuted)]_vars

\* C11 witness: the first store was loaded from next_boot and synchronized
\* back as unmuted, and the second store has been constructed over that file.
C11_Witness ==
    /\ boots = 2 /\ newRes.tag = "Ok"
    /\ prev.had /\ prev.normalized /\ prev.persisted /\ prev.n >= 1
    /\ prev.muted = Unmuted
    /\ muted = Unmuted /\ file.content = to_toml(Unmuted)

\* The handled events that went through access_mut, and the last of them.
Writes == {i \in 1..Len(handled) : handled[i].write}

LastWrite == handled[CHOOSE i \in Writes : \A j \in Writes : j <= i]

\* No handler is running and the store of this process is live.
AtRest == newRes.tag = "Ok" /\ app.state # "handling"

\* C12: every handled MuteUntilExit event ("5") went through access_mut, left
\* NextBoot in memory and, when the sync succeeded, wrote exactly the document
\* next_boot; while it is the last mutation of the running process the store
\* holds NextBoot and the file next_boot; and once the program has been
\* started again over the same directory, the new store holds Unmuted.
C12_MuteUntilExitThenRestart ==
    /\ \A i \in 1..Len(handled) :
         handled[i].id = "5"
           => /\ handled[i].write
              /\ handled[i].after = NextBoot
              /\ handled[i].wrote
                   = IF handled[i].ok THEN <<to_toml(NextBoot)>> ELSE <<>>
    /\ (Writes # {} /\ AtRest /\ LastWrite.id = "5" /\ LastWrite.ok)
         => IF LastWrite.boot = boots
            THEN muted = NextBoot /\ file.content = to_toml(NextBoot)
            ELSE muted = Unmuted /\ file.content = to_toml(NextBoot)

\* C12 witness: MuteUntilExit was handled and persisted in the first process,
\* and the second process has constructed its store.
C12_Witness ==
    /\ Writes # {} /\ AtRest
    /\ LastWrite.id = "5" /\ LastWrite.ok /\ LastWrite.boot < boots
    /\ LastWrite.wrote = <<to_toml(NextBoot)>>
    /\ muted = Unmuted

\* C13: every handled Mute event ("4") went through access_mut and left Manual
\* when it found Unmuted, and Unmuted when it found anything else; and while a
\* Mute event is being handled the store's value changes only in a step taken
\* by the dispatcher thread while it holds the write lock.
C13_MuteToggles ==
    /\ [](\A i \in 1..Len(handled) :
            handled[i].id = "4"
              => /\ handled[i].write
                 /\ handled[i].before \in MuteState
                 /\ handled[i].after = IF handled[i].before = Unmuted
                                       THEN Manual ELSE Unmuted)
    /\ [][(app.ev = "4" /\ muted' # muted)
            => /\ writer = "main"
               /\ muted' = IF muted = Unmuted THEN Manual ELSE Unmuted]_vars

\* C13 witness: a Mute event was handled that found neither Unmuted nor
\* Manual and left Unmuted.
C13_Witness ==
    \E i \in 1..Len(handled) :
        /\ handled[i].id = "4"
        /\ handled[i].before \notin {Unmuted, Manual}
        /\ handled[i].after = Unmuted

\* C14: when two Mute events ("4") are handled one after the other in one
\* process, the first finding Unmuted, the store goes Unmuted -> Manual ->
\* Unmuted, each handler writes at most one document, and when both syncs
\* succeed the documents written are manual and then unmuted.
C14_TwoMutesTwoWrites ==
    \A i \in 1..Len(handled) :
        (/\ i < Len(handled)
         /\ handled[i].id = "4" /\ handled[i + 1].id = "4"
         /\ handled[i].boot = handled[i + 1].boot
         /\ handled[i].before = Unmuted)
          => /\ handled[i].after = Manual
             /\ handled[i + 1].before = Manual
             /\ handled[i + 1].after = Unmuted
             /\ handled[i].wrote
                  = IF handled[i].ok THEN <<to_toml(Manual)>> ELSE <<>>
             /\ handled[i + 1].wrote
                  = IF handled[i + 1].ok THEN <<to_toml(Unmuted)>> ELSE <<>>

\* C14 witness: two Mute events in a row from Unmuted, both persisted; the
\* file holds the second document.
C14_Witness ==
    /\ Len(handled) = 2
    /\ handled[1].id = "4" /\ handled[2].id = "4"
    /\ handled[1].boot = handled[2].boot
    /\ handled[1].before = Unmuted
    /\ handled[1].ok /\ handled[2].ok
    /\ handled[1].wrote \o handled[2].wrote
         = <<to_toml(Manual), to_toml(Unmuted)>>
    /\ file.content = to_toml(Unmuted)

\* C15: once an Open event ("3") has been handled in the running process, the
\* application holds a window.
C15_OpenMakesWindow ==
    (\E i \in 1..Len(handled) :
        handled[i].id = "3" /\ handled[i].boot = boots /\ newRes.tag = "Ok")
      => app.window # "None"

\* C16: once eloop.exit() has been called, and until the loop has stopped, no
\* step changes the store's value or the config file.
C16_NothingAfterExit ==
    [][(eloop.phase = "running" /\ eloop.exiting)
         => (muted' = muted /\ file' = file)]_vars

\* C17: whenever a menu event is queued for the dispatcher, is in the pass
\* being delivered, or is being handled, the tray icon slot is filled: the
\* tray icon was published before the first menu event was sent.
C17_PublishedBeforeDispatch ==
    (eloop.chan # <<>> \/ eloop.pass # <<>> \/ app.state = "handling")
      => tray_icon.slot = "Some"

\* C17 witness: with the GTK thread, the dispatcher is handling a menu event
\* and the slot holds the icon the GTK thread published.
C17_Witness ==
    /\ app.mode = "delegated"
    /\ app.state = "handling"
    /\ worker.pc = "gtk_main"
    /\ tray_icon.slot = "Some" /\ tray_icon.writes = <<"gtk">>

\* The tray icon could not be built: TrayIcon::new failed on the dispatcher
\* thread, or the GTK thread gave up.
BootFailed == app.bootErr # "-" \/ worker.pc = "dead"

\* The loop has returned, or has been asked to.
Terminating ==
    eloop.exiting \/ eloop.phase \in {"stopped", "failed"} \/ app.state = "ended"

\* C18: when the tray icon could not be built and no event is queued, in
\* delivery or being handled, the loop has stopped or has been asked to stop.
C18_BootFailureStopsLoop ==
    (BootFailed /\ eloop.chan = <<>> /\ eloop.pass = <<>>
       /\ app.state # "handling")
      => Terminating

\* C19: a process that has ended has exit code 0 exactly when its loop
\* returned Ok and the tray icon had been built; every startup failure, every
\* failure to build the tray icon and every loop error ends it with 1.
C19_ExitCodes ==
    app.state = "ended"
      => (app.exitCode = 0 <=> (eloop.phase = "stopped" /\ app.bootErr = "-"))

\* C20 as stated: with the GTK thread, once that thread is through with the
\* bootstrap the slot has been written exactly once, by it.
C20_WrittenExactlyOnce ==
    (app.mode = "delegated" /\ worker.pc \in {"gtk_main", "dead"})
      => tray_icon.writes = <<"gtk">>

\* C20: with the GTK thread, the slot is written at most once: once by the GTK
\* thread when it reaches gtk::main(), never when it gave up; within a process
\* the slot only changes from empty to filled, in a step of the GTK thread
\* taken while it holds the slot's mutex; the dispatcher never writes it.
C20_WrittenAtMostOnce ==
    /\ [](app.mode = "delegated"
           => /\ tray_icon.writes \in {<<>>, <<"gtk">>}
              /\ (tray_icon.slot = "Some") = (tray_icon.writes = <<"gtk">>)
              /\ worker.pc = "gtk_main" => tray_icon.writes = <<"gtk">>
              /\ worker.pc = "dead" => tray_icon.writes = <<>>)
    /\ [][(/\ app.mode = "delegated"
            /\ app.state # "ended"
            /\ (tray_icon.slot' # tray_icon.slot
                  \/ tray_icon.writes' # tray_icon.writes))
           => /\ worker.pc = "publish"
              /\ tray_icon.lock = "gtk"
              /\ tray_icon.slot = "None"
              /\ tray_icon.slot' = "Some"
              /\ tray_icon.writes' = <<"gtk">>]_vars

\* C20 witness: the GTK thread has published the icon and runs gtk::main(),
\* and the dispatcher has handled an event since.
C20_Witness ==
    /\ app.mode = "delegated"
    /\ worker.pc = "gtk_main"
    /\ tray_icon.slot = "Some" /\ tray_icon.writes = <<"gtk">>
    /\ tray_icon.lock = "none"
    /\ \E i \in 1..Len(handled) : handled[i].boot = boots

\* C21 as stated: the GTK thread holds the slot's mutex while it constructs
\* the tray icon.
C21_ConstructsUnderMutex ==
    worker.pc = "tray_new" => tray_icon.lock = "gtk"

\* C21: the GTK thread goes through gtk::init(), TrayIcon::new, lock, publish
\* and gtk::main() in that order, leaving the order only by giving up; it
\* constructs the tray icon without the mutex, it holds the mutex exactly
\* while it publishes, and whenever it runs gtk::main() the slot is filled.
C21_WorkerOrder ==
    /\ [](/\ worker.pc = "gtk_main" => tray_icon.slot = "Some"
           /\ (tray_icon.lock = "gtk") = (worker.pc = "publish"))
    /\ [][(worker'.pc # worker.pc /\ app.state # "ended")
           => \/ worker.pc = "none" /\ worker'.pc = "gtk_init"
              \/ worker.pc = "gtk_init" /\ worker'.pc \in {"tray_new", "dead"}
              \/ /\ worker.pc = "tray_new" /\ worker'.pc \in {"lock", "dead"}
                 /\ tray_icon.lock = "none" /\ tray_icon'.lock = "none"
                 /\ tray_icon'.slot = "None"
              \/ /\ worker.pc = "lock" /\ worker'.pc = "publish"
                 /\ tray_icon'.slot = "None"
              \/ /\ worker.pc = "publish" /\ worker'.pc = "gtk_main"
                 /\ tray_icon'.slot = "Some"]_vars

\* C21 witness: the GTK thread runs gtk::main() after it published the icon.
C21_Witness ==
    /\ worker.pc = "gtk_main"
    /\ tray_icon.writes = <<"gtk">> /\ tray_icon.slot = "Some"
    /\ tray_icon.handler

\* The step in which the MenuEvent handler runs.
ClickStep == app'.clicks # app.clicks

\* C22: the MenuEvent handler changes nothing but the loop's channel, to which
\* it appends the clicked item's identifier (or nothing when the loop is
\* gone): not the slot, not the store, not the file; the GTK thread never
\* enters the store; and while a store is live its value changes only in a
\* step of the dispatcher thread, which holds the write lock and is handling a
\* menu event.
C22_ClicksOnlySend ==
    /\ [](pc["gtk"] = "idle" /\ writer # "gtk" /\ "gtk" \notin readers)
    /\ [][ClickStep
           => /\ tray_icon' = tray_icon
              /\ <<dirs, file, muted, writer, readers, pc, call, ret>>'
                   = <<dirs, file, muted, writer, readers, pc, call, ret>>
              /\ handled' = handled
              /\ \/ eloop' = eloop /\ eloop.phase # "running"
                 \/ \E item \in MenuItems :
                      eloop' = [eloop EXCEPT
                                  !.chan = Append(eloop.chan,
                                                  tray_icon.ids[item])]]_vars
    /\ [][(newRes.tag = "Ok" /\ newRes'.tag = "Ok" /\ muted' # muted)
           => /\ writer = "main"
              /\ app.state = "handling"
              /\ pc["main"] = "am_fn"]_vars

\* C22 witness: with the GTK thread, a Mute click has gone through the channel
\* and the dispatcher has applied and persisted it.
C22_Witness ==
    /\ app.mode = "delegated"
    /\ worker.pc = "gtk_main"
    /\ \E i \in 1..Len(handled) :
         /\ handled[i].boot = boots
         /\ handled[i].write /\ handled[i].ok
         /\ handled[i].after # handled[i].before

\* The five actions of the tray menu.
Actions == {"Open", "Mute", "MuteUntilExit", "MuteFor", "Exit"}

\* C23: once the tray icon is built, its table of identifiers has one entry
\* for each of the five actions, no identifier twice, and the dispatcher
\* translates the identifier of every entry to the action of that entry.
C23_TableTranslates ==
    tray_icon.slot = "Some"
      => /\ DOMAIN tray_icon.ids = Actions
         /\ \A a, b \in DOMAIN tray_icon.ids :
              tray_icon.ids[a] = tray_icon.ids[b] => a = b
         /\ \A a \in DOMAIN tray_icon.ids : handler_of(tray_icon.ids[a]) = a

\* The step in which the dispatcher takes the event `id` from the pass and
\* calls handle_tray_event.
DispatchStep(id) ==
    /\ eloop.pass # <<>>
    /\ Head(eloop.pass) = id
    /\ eloop'.pass = Tail(eloop.pass)

\* C24: handling a MuteFor event ("6") changes neither the store's value, nor
\* the config file or the directories, nor the window, nor whether the loop
\* runs or has been asked to exit; the handler returns in the same step and
\* the dispatcher is ready for the next event.
C24_MuteForIsNoOp ==
    [][DispatchStep("6")
         => /\ <<muted, file, dirs, newRes, pc, call, ret>>'
                 = <<muted, file, dirs, newRes, pc, call, ret>>
            /\ app' = app
            /\ eloop'.phase = eloop.phase
            /\ eloop'.exiting = eloop.exiting
            /\ eloop'.chan = eloop.chan
            /\ tray_icon' = tray_icon]_vars

\* C24 witness: a MuteFor event was handled in the running process, whose
\* loop still runs and has not been asked to exit.
C24_Witness ==
    /\ Len(handled) >= 1
    /\ handled[Len(handled)].id = "6"
    /\ handled[Len(handled)].boot = boots
    /\ handled[Len(handled)].after = handled[Len(handled)].before
    /\ handled[Len(handled)].wrote = <<>>
    /\ newRes.tag = "Ok" /\ muted = handled[Len(handled)].after
    /\ eloop.phase = "running" /\ ~eloop.exiting
    /\ app.state = "idle" /\ app.window = "None"

\* A step that handles one window event.
WindowEventStep == Len(handled') = Len(handled) + 1

\* The window event handled by the step.
LastEvent == handled'[Len(handled')]

\* C25: a window event that arrives while no window is owned, or whose window
\* identifier is not the owned window's, is dropped: the owned window (or its
\* absence), the store (its value, its lock, its file and directories) and the
\* loop's running status are unchanged by the step.
C25_ForeignEventDropped ==
    [][(WindowEventStep
          /\ (app.window = "None" \/ LastEvent.window # app.window))
         => /\ app'.window = app.window
            /\ <<muted, file, dirs, newRes, writer, readers, pc, call, ret>>'
                 = <<muted, file, dirs, newRes, writer, readers, pc, call, ret>>
            /\ eloop' = eloop]_vars

\* C25 witness: a close request carrying another window's identifier was
\* handled while a window was owned, and that window is still owned.
C25_Witness ==
    /\ Len(handled) >= 1
    /\ handled[Len(handled)].before \in WindowIds
    /\ handled[Len(handled)].window # handled[Len(handled)].before
    /\ handled[Len(handled)].id = "CloseRequested"
    /\ handled[Len(handled)].after = handled[Len(handled)].before
    /\ app.window = handled[Len(handled)].before
    /\ newRes.tag = "Ok"
    /\ eloop.phase = "running"

C27_OneBootstrapOneWorker ==
    /\ app.inits <= 1
    /\ eloop.phase \in {"running", "stopped", "failed"} => app.inits = 1
    /\ eloop.phase \in {"none", "built"} => app.inits = 0
    /\ worker.spawned <= app.inits
    /\ worker.spawned = 1 <=> (app.inits = 1 /\ app.mode = "delegated")
    /\ worker.pc # "none" => worker.spawned = 1
    /\ app.mode = "direct" => worker = NoWorker

\* C27 witness: in delegated mode two menu events were handled after the
\* Init event, and still only the one thread of the Init event was spawned.
C27_Witness ==
    /\ app.mode = "delegated"
    /\ app.inits = 1
    /\ worker.spawned = 1
    /\ worker.pc = "gtk_main"
    /\ Len(handled) >= 2
    /\ handled[Len(handled)].boot = boots
    /\ handled[Len(handled) - 1].boot = boots

\* C28: a thread that asks for the shared lock gets it whenever no writer
\* holds or awaits the lock, however many readers hold it already; readers and
\* a writer never hold the lock together.
C28_ReadersShare ==
    /\ \A t \in Threads :
         (pc[t] \in {"a_read", "am_read"} /\ writer = "none"
            /\ WaitingWriters = {}) => can_read(t)
    /\ readers # {} => writer = "none"
    /\ \A t \in readers : pc[t] \in {"a_fn", "am_sync"}

\* C28 witness: both threads hold the shared lock at the same time, each
\* inside the closure of its read call.
C28_Witness ==
    /\ readers = Threads
    /\ \A t \in Threads : pc[t] = "a_fn"
    /\ writer = "none"

\* The handler of a Mute or MuteUntilExit event returns after a failed sync.
FailedSyncReturns ==
    /\ app.state = "handling"
    /\ app'.state = "idle"
    /\ ret["main"].tag = "OkErr"

\* C29: when the sync of a Mute or MuteUntilExit event has failed, the handler
\* returns without touching the store or the loop: the store keeps the value
\* the closure made, no exit is requested, the loop keeps running with its
\* queue, and the dispatcher is ready for the next event.
C29_FailedSyncOnlyLogged ==
    [][FailedSyncReturns
         => /\ muted' = muted
            /\ muted = fn_state(closure_of(app.ev), call["main"].before)
            /\ <<file, dirs, newRes, writer, readers>>'
                 = <<file, dirs, newRes, writer, readers>>
            /\ eloop' = eloop
            /\ eloop'.phase = "running"
            /\ app'.exitCode = "-"
            /\ handled'[Len(handled')].after = muted
            /\ ~handled'[Len(handled')].ok]_vars

\* C29 witness: in one process a Mute event whose sync failed left the store
\* muted, and the next event was handled after it, starting from that value.
C29_Witness ==
    /\ Len(handled) >= 2
    /\ handled[Len(handled) - 1].boot = boots
    /\ handled[Len(handled)].boot = boots
    /\ handled[Len(handled) - 1].id = "4"
    /\ handled[Len(handled) - 1].write
    /\ ~handled[Len(handled) - 1].ok
    /\ handled[Len(handled) - 1].before = Unmuted
    /\ handled[Len(handled) - 1].after = Manual
    /\ handled[Len(handled)].before = Manual
    /\ eloop.phase = "running"

\* C30 (as claimed): every persistence failure access_mut returns is a
\* ConfigWrite error carrying the path of the config file.
C30_AlwaysConfigWrite ==
    \A t \in Threads :
        ret[t].tag = "OkErr" => ret[t].err = ConfigWrite(config_path)

\* C30: a persistence failure of access_mut is a ConfigWrite error carrying
\* the config file's path when the directory exists after the attempt, and a
\* ConfigDirCreate error carrying the directory's path when the directory was
\* missing and could not be created; in both cases the file is left as it was.
C30_FailureNamesItsPath ==
    [][\A t \in Threads :
         (SyncStep(t) /\ ret'[t].tag = "OkErr")
           => /\ file' = file
              /\ IF parent(config_path) \in dirs'
                 THEN ret'[t].err = ConfigWrite(config_path)
                 ELSE /\ ret'[t].err = ConfigDirCreate(parent(config_path))
                      /\ parent(config_path) \notin dirs]_vars

\* C30 witness: one call failed because the missing directory could not be
\* created, and a later call created it and then failed to write the file.
C30_Witness ==
    /\ ret["main"].tag = "OkErr"
    /\ ret["main"].err = ConfigDirCreate(config_dir)
    /\ ret["gtk"].tag = "OkErr"
    /\ ret["gtk"].err = ConfigWrite(config_path)
    /\ config_dir \in dirs

\* The identifiers of the events handled by the running process, in the
\* order their handling ended.
HandledIds ==
    LET n == Cardinality({i \in 1..Len(handled) : handled[i].boot = boots})
    IN  [i \in 1..n |-> handled[Len(handled) - n + i].id]

\* The events that have reached the loop of the running process, in the
\* order the model says they are or will be handled: those handled, the one
\* in its handler, those of the current pass, those still in the channel.
Arrived ==
    HandledIds
      \o (IF app.state = "handling" THEN <<app.ev>> ELSE <<>>)
      \o eloop.pass \o eloop.chan

\* C31: while the loop runs, the sequence of events that reached it only
\* grows at its end, by a click, so events are handled in arrival order; an
\* event is taken from the pass only when no handler runs and the store's lock
\* is free; and the handled events of one process form a chain in which each
\* starts from the value its predecessor left and, when it went through
\* access_mut, wrote the document of its own result if its sync succeeded and
\* nothing otherwise.
C31_InArrivalOrder ==
    /\ [][eloop.phase = "running"
            => \/ Arrived' = Arrived
               \/ ClickStep /\ \E id \in MenuIds :
                                 Arrived' = Append(Arrived, id)]_vars
    /\ [][(eloop.pass # <<>> /\ eloop'.pass = Tail(eloop.pass))
            => /\ app.state = "idle"
               /\ pc["main"] = "idle"
               /\ writer = "none" /\ readers = {}]_vars
    /\ [](\A i \in 1..Len(handled) :
            /\ handled[i].write
                 => /\ handled[i].after
                        = fn_state(closure_of(handled[i].id), handled[i].before)
                    /\ handled[i].wrote
                        = IF handled[i].ok THEN <<to_toml(handled[i].after)>>
                                           ELSE <<>>
            /\ (i < Len(handled) /\ handled[i].boot = handled[i + 1].boot)
                 => handled[i + 1].before = handled[i].after)

\* C31 witness: two different menu events were queued together, and both
\* have been handled, the one that was sent first before the other, each
\* writing its own document.
C31_Witness ==
    /\ Len(handled) = 2
    /\ handled[1].boot = boots /\ handled[2].boot = boots
    /\ handled[1].id = "5" /\ handled[2].id = "4"
    /\ handled[1].wrote = <<to_toml(NextBoot)>>
    /\ handled[2].wrote = <<to_toml(Unmuted)>>
    /\ file.content = to_toml(Unmuted)
    /\ eloop.chan = <<>> /\ eloop.pass = <<>>

\* C32: a thread inside access_mut that waits for or holds the shared lock
\* does not hold the exclusive lock, and a thread that holds the exclusive
\* lock is inside its closure; and every access_mut call that has been made
\* returns.
C32_ReleasesThenReads ==
    /\ [](\A t \in Threads :
            /\ pc[t] \in {"am_read", "am_sync"} => writer # t
            /\ writer = t <=> pc[t] = "am_fn")
    /\ \A t \in Threads :
         (pc[t] \in {"am_write", "am_fn", "am_read", "am_sync"})
           ~> (pc[t] = "idle")

\* C32 witness: one thread has left its closure and waits for the shared
\* lock while the other thread holds the exclusive lock it has released.
C32_Witness ==
    /\ pc["main"] = "am_read"
    /\ pc["gtk"] = "am_fn"
    /\ writer = "gtk"
    /\ "main" \notin readers

\* C33: while a thread is in sync it holds the shared lock, no thread holds
\* the exclusive lock or runs a mutating closure, and no step changes the
\* store's value; what a sync writes, if anything, is the document of the
\* value the store holds in that step; and when no call is under way and every
\* access_mut call of the process has persisted, at least one of them, the
\* file holds the document of the store's value.
C33_SyncWritesCurrentState ==
    /\ [](\A t \in Threads :
            pc[t] = "am_sync"
              => /\ t \in readers
                 /\ writer = "none"
                 /\ \A u \in Threads : pc[u] # "am_fn")
    /\ [][\A t \in Threads :
            pc[t] = "am_sync"
              => /\ muted' = muted
                 /\ file' # file
                      => /\ \E u \in Threads : SyncStep(u)
                         /\ file'.exists
                         /\ file'.content = to_toml(muted)
                 /\ SyncStep(t)
                      => \/ call'[t].wrote = call[t].wrote
                         \/ call'[t].wrote
                              = Append(call[t].wrote, to_toml(muted))]_vars
    /\ []((/\ newRes.tag = "Ok"
           /\ \A t \in Threads : pc[t] = "idle"
           /\ allPersisted
           /\ nPersisted >= 1)
            => (file.exists /\ file.content = to_toml(muted)))

\* C33 witness: two access_mut calls were interleaved, the closure of one
\* running after the closure of the other and before either sync; both calls
\* wrote the document of the final value and the file holds it.
C33_Witness ==
    /\ \A t \in Threads : pc[t] = "idle" /\ ret[t].tag = "OkOk"
    /\ call["main"].wrote = <<to_toml(muted)>>
    /\ call["gtk"].wrote = <<to_toml(muted)>>
    /\ call["gtk"].before # call["main"].before
    /\ call["gtk"].before # muted
    /\ call["main"].before # muted
    /\ allPersisted /\ nPersisted = 2
    /\ file.content = to_toml(muted)

\* The step in which thread t's closure returns an error.
FnFails(t) == FnStep(t) /\ ret'[t].tag = "Err"

\* C34 (as claimed): when a closure has changed the state and returned an
\* error, the change stays in memory, the file is not rewritten, and the file
\* does not hold the document of the value now in memory.
C34_MemoryAndDiskDiffer ==
    [][\A t \in Threads :
         (FnFails(t) /\ muted' # muted)
           => /\ muted' = fn_state(call[t].fn, muted)
              /\ file' = file
              /\ ~(file'.exists /\ file'.content = to_toml(muted'))]_vars

\* C34 (amended): when a closure returns an error, what it did to the state
\* stays in memory, the call returns at once having written nothing, and the
\* file is left as it was; so if the file held the document of the value in
\* memory and the closure changed that value, it no longer does; and the file
\* changes only in a sync that succeeds.
C34_NoRollbackNoRewrite ==
    /\ [][\A t \in Threads :
            FnFails(t)
              => /\ muted' = fn_state(call[t].fn, muted)
                 /\ file' = file /\ dirs' = dirs
                 /\ pc'[t] = "idle"
                 /\ call'[t].wrote = <<>>
                 /\ (/\ muted' # muted
                     /\ file.exists /\ file.content = to_toml(muted))
                      => file'.content # to_toml(muted')]_vars
    /\ [][file' # file
            => \E t \in Threads : SyncStep(t) /\ ret'[t].tag = "OkOk"]_vars

\* C34 witness: after a call that persisted Unmuted, a closure set Manual and
\* returned an error: memory holds Manual, the file still the document of
\* Unmuted.
C34_Witness ==
    \E t \in Threads :
      /\ pc[t] = "idle" /\ ret[t].tag = "Err"
      /\ call[t].before = Unmuted /\ muted = Manual
      /\ nPersisted >= 1
      /\ file.exists /\ file.content = to_toml(Unmuted)

\* C35: constructing the store leaves the config file as it is, also when the
\* document loaded is next_boot and the store starts as Unmuted; a store that
\* loaded next_boot finds it in the file for as long as none of its syncs has
\* succeeded; and any change of the file is made by a sync that succeeds.
C35_NewNeverWrites ==
    /\ [][NewStep
            => /\ file' = file
               /\ (newRes'.tag = "Ok" /\ file.exists
                      /\ file.content = to_toml(NextBoot))
                    => (muted' = Unmuted /\ file'.content = to_toml(NextBoot))]_vars
    /\ []((newRes.tag = "Ok" /\ normalized /\ nPersisted = 0)
            => (file.exists /\ file.content = to_toml(NextBoot)))
    /\ [][(file' # file /\ ~NewStep)
            => \E t \in Threads :
                 /\ SyncStep(t) /\ ret'[t].tag = "OkOk"
                 /\ file'.content = to_toml(muted)]_vars

\* C35 witness: a store that loaded next_boot has had its value changed by
\* a call whose sync failed, and the file still holds next_boot.
C35_Witness ==
    /\ newRes.tag = "Ok" /\ normalized /\ nPersisted = 0
    /\ \E t \in Threads : pc[t] = "idle" /\ ret[t].tag = "OkErr"
    /\ muted = Manual
    /\ file.exists /\ file.content = to_toml(NextBoot)

\* The identifiers handle_tray_event has no arm for.
UnknownIds == MenuIds \ {"3", "4", "5", "6", "7"}

\* C36: handling an event with an identifier that has no arm changes neither
\* the store, its lock and its calls, nor the file and the directories, nor
\* the application (its window included), nor the tray icon, nor whether the
\* loop runs or was asked to exit; the event is only recorded as handled and
\* the dispatcher is ready for the next one.  Handling "3" (Open) or "7"
\* (Exit) changes neither the store's value nor the file or the directories,
\* and starts no call into the store.
C36_UnknownIgnored ==
    [][/\ \A id \in UnknownIds :
            DispatchStep(id)
              => /\ <<muted, file, dirs, newRes, writer, readers, pc, call, ret>>'
                      = <<muted, file, dirs, newRes, writer, readers, pc, call, ret>>
                 /\ app' = app
                 /\ tray_icon' = tray_icon
                 /\ eloop'.phase = eloop.phase
                 /\ eloop'.exiting = eloop.exiting
                 /\ eloop'.chan = eloop.chan
                 /\ handled' = Append(handled,
                                  Handled(id, muted, muted, <<>>, TRUE, FALSE))
       /\ (DispatchStep("3") \/ DispatchStep("7"))
            => /\ <<muted, file, dirs, newRes, writer, readers, pc, call>>'
                    = <<muted, file, dirs, newRes, writer, readers, pc, call>>
               /\ app'.state = "idle"]_vars

\* C36 witness: an event with an unknown identifier was handled, the store
\* and the loop were left alone, and the next event went through access_mut.
C36_Witness ==
    /\ Len(handled) = 2
    /\ handled[1].boot = boots /\ handled[2].boot = boots
    /\ handled[1].id \in UnknownIds
    /\ handled[1].after = handled[1].before
    /\ ~handled[1].write
    /\ handled[2].id = "4" /\ handled[2].write
    /\ handled[2].before = handled[1].after
    /\ eloop.phase = "running" /\ ~eloop.exiting
    /\ app.window = "None"

\* C37: a click made when the loop has returned changes nothing but the count
\* of clicks: the event is not queued, the loop, the store, the file, the
\* tray icon and the handled events are as before, and the thread of the
\* handler goes on as before, so that a later click can be made.
C37_FailedSendOnlyWarns ==
    [][(ClickStep /\ eloop.phase # "running")
         => /\ eloop' = eloop
            /\ worker' = worker /\ worker.pc = "gtk_main"
            /\ tray_icon' = tray_icon
            /\ handled' = handled
            /\ <<muted, file, dirs, newRes, writer, readers, pc, call, ret>>'
                 = <<muted, file, dirs, newRes, writer, readers, pc, call, ret>>
            /\ app' = [app EXCEPT !.clicks = app.clicks + 1]]_vars

\* C37 witness: the loop has failed, two clicks were made after that, neither
\* reached the loop, and the GTK thread still runs its loop.
C37_Witness ==
    /\ eloop.phase = "failed"
    /\ app.state = "idle"
    /\ app.clicks = 2
    /\ eloop.chan = <<>> /\ eloop.pass = <<>>
    /\ handled = <<>>
    /\ worker.pc = "gtk_main"
    /\ tray_icon.slot = "Some"

====
